---- MODULE Spec2Model ----
(***************************************************************************)
(* Model of the lpc55-hal RNG driver (src/src/rng.rs) and of the register  *)
(* proxies (src/src/reg_proxy.rs).                                         *)
(*                                                                         *)
(* The Rust typestate is modelled by the receiver type of each impl block: *)
(* an operation can be taken on a handle only if the handle's state tag is *)
(* one the impl block is written for.  Ownership is modelled by removing a *)
(* consumed value from the collection that held it.                        *)
(***************************************************************************)
EXTENDS Integers, Sequences, FiniteSets, TLC

VARIABLES
    caller,         \* raw register blocks (raw::RNG values) the caller owns
    handles,        \* handles[b]: the live Rng values descending from wrap(b)
    syscon,         \* clock controller: clock[b] = the clock of block b runs;
                    \* log = the calls the last operation made to it
    moduleid,       \* MODULEID register (fixed by the hardware)
    refresh_cnt,    \* COUNTER_VAL.REFRESH_CNT field (driven by the hardware)
    random_number,  \* RANDOM_NUMBER register (driven by the hardware)
    pc,             \* position of the caller: idle / poll / copy / returned
    k,              \* iterations of `for _ in 0..32` completed in this call
    word,           \* value get_random_u32 read from RANDOM_NUMBER
    buffer,         \* the caller's buffer during read()
    i,              \* read()'s index i
    result,         \* value the finished operation returned
    lastOp,         \* history: the operation last started and its receiver
    nzObs,          \* history: non-zero REFRESH_CNT observations in this call
    rnReads,        \* history: RANDOM_NUMBER reads in this get_random_u32 call
    words,          \* history: words get_random_u32 returned in this operation
    src,            \* history: src[j] = chunks that wrote buffer index j
    hwNonZero,      \* history: REFRESH_CNT was non-zero since this call began
    lastObs,        \* history: REFRESH_CNT value the last poll of this call saw
    proxies,        \* the RegProxy / RegClusterProxy values created so far
    mem,            \* the memory-mapped registers, by address
    ctx,            \* per execution context: the register access in progress
    lastDeref,      \* history: the last dereference and what it yielded
    getCalls        \* history: calls of Reg::get / RegCluster::get so far,
                    \* counted up to MaxGetCalls

vars == <<caller, handles, syscon, moduleid, refresh_cnt, random_number, pc, k,
          word, buffer, i, result, lastOp, nzObs, rnReads, words, src,
          hwNonZero, lastObs, proxies, mem, ctx, lastDeref, getCalls>>

proxyVars == <<proxies, mem, ctx, lastDeref, getCalls>>
rngVars == <<caller, handles, syscon, moduleid, refresh_cnt, random_number, pc,
             k, word, buffer, i, result, lastOp, nzObs, rnReads, words, src,
             hwNonZero, lastObs>>

lifecycleVars == <<caller, handles, syscon>>
callVars == <<pc, k, word, buffer, i, result, nzObs, rnReads, words, src,
              hwNonZero, lastObs>>
hwVars == <<moduleid, refresh_cnt, random_number>>

-----------------------------------------------------------------------------
(* Bounds of the model *)

NumBlocks == 2
MaxLen == 6
MaxRefreshCnt == 1
MaxProxies == 2
MaxGetCalls == 3

Blocks == 1..NumBlocks
RefreshValues == 0..MaxRefreshCnt
\* 32-bit register values used by the model (all below 2^31)
Words == {287454020, 1432778632}        \* 0x11223344, 0x55667788
ModuleIdValues == {305419896, 180040176} \* 0x12345678, 0x0ABB31F0

-----------------------------------------------------------------------------
(* Types of rng.rs *)

Min(a, b) == IF a < b THEN a ELSE b

\* struct Rng<State = init_state::Enabled>: the default state parameter
Rng_default_State == "Enabled"

\* impl Rng { module_id, release }: `Rng` without a parameter is Rng<Enabled>
impl_Rng == {Rng_default_State}

\* impl Rng<init_state::Disabled> { new, enabled }
impl_Rng_Disabled == {"Disabled"}

States == {"Disabled", "Enabled"}

\* faulty variant: the block written as impl<State> Rng<State>
impl_Rng_any_State == States

\* impl Rng<init_state::Enabled> { disabled, get_random_u32 }
impl_Rng_Enabled == {"Enabled"}

\* impl crate::hal::blocking::rng::Read for Rng { read }
impl_Read_for_Rng == {Rng_default_State}

Handle == [raw : Blocks, _state : States]

\* Rng::new
Rng_new(rng) == [raw |-> rng, _state |-> "Disabled"]

\* the struct literal enabled() returns
Rng_enabled_value(self) == [raw |-> self.raw, _state |-> "Enabled"]

\* faulty variant: disabled() builds its result around another register block
Rng_disabled_other_block(self) ==
    [raw |-> (self.raw % NumBlocks) + 1, _state |-> "Disabled"]

\* the struct literal disabled() returns
Rng_disabled_value(self) == [raw |-> self.raw, _state |-> "Disabled"]

\* Syscon::enable_clock / disable_clock on the peripheral of a raw block
enable_clock(sys, raw) ==
    [clock |-> [sys.clock EXCEPT ![raw] = TRUE],
     log |-> Append(sys.log, <<"enable_clock", raw>>)]

disable_clock(sys, raw) ==
    [clock |-> [sys.clock EXCEPT ![raw] = FALSE],
     log |-> Append(sys.log, <<"disable_clock", raw>>)]

\* the clock controller as an operation finds it: no call made yet
begin_op(sys) == [sys EXCEPT !.log = <<>>]

\* the operation started and the state tag of the handle it was called on
Op(name, on, raw) == [op |-> name, on |-> on, raw |-> raw]

-----------------------------------------------------------------------------
(* Types of reg_proxy.rs *)

\* execution contexts that can own a proxy
Contexts == {"main", "irq"}

\* types the reg! macro implements Reg for, and reg_cluster! RegCluster for
RegDescs == {"AHBCLKCTRL0"}
ClusterDescs == {"DIRSET"}

\* Reg::get() as reg!(AHBCLKCTRL0, AHBCLKCTRL0, raw::SYSCON, ahbclkctrl0)
\* writes it: the address of the field, the same at every call
Reg_get(T) == CASE T = "AHBCLKCTRL0" -> 0

\* RegCluster::get() as reg_cluster!(DIRSET, DIRSET, raw::GPIO, dirset)
\* writes it: the address and length of the run of registers
RegCluster_get(T) == CASE T = "DIRSET" -> [base |-> 1, len |-> 2]

Addrs == 0..2
RegValues == 0..1

\* RegProxy { _marker: PhantomData } made and owned by context c
RegProxy_value(T, c) == [kind |-> "reg", T |-> T, owner |-> c, maker |-> c]

\* RegClusterProxy { _marker: PhantomData } made and owned by context c
RegClusterProxy_value(T, c) ==
    [kind |-> "cluster", T |-> T, owner |-> c, maker |-> c]

\* faulty variant: the proxy yields an address that depends on the context holding it
RegProxy_deref_per_context(self) ==
    IF self.owner = "main" THEN Reg_get(self.T) ELSE Reg_get(self.T) + 1

\* <RegProxy<T> as Deref>::deref: unsafe { &*T::get() }
RegProxy_deref(self) == Reg_get(self.T)

\* one more call of the address function
count_get(n) == Min(n + 1, MaxGetCalls)

\* <RegClusterProxy<T> as Deref>::deref: unsafe { &*T::get() }
RegClusterProxy_deref(self) == RegCluster_get(self.T)

Idle == [pc |-> "idle", p |-> 0, idx |-> 0, ref |-> 0, tmp |-> 0]
NoDeref == [p |-> 0, owner |-> "none", kind |-> "none", T |-> "none", target |-> 0]

ProxyInit ==
    /\ proxies = <<>>
    /\ mem \in [Addrs -> {0}]
    /\ ctx = [c \in Contexts |-> Idle]
    /\ lastDeref = NoDeref
    /\ getCalls = 0

\* lastObs before the first poll of a call
NotPolled == -1

(* Initial state: the caller owns every raw block, all clocks are off *)

RngInit ==
    /\ caller = Blocks
    /\ handles = [b \in Blocks |-> {}]
    /\ syscon = [clock |-> [b \in Blocks |-> FALSE], log |-> <<>>]
    /\ moduleid \in ModuleIdValues
    /\ refresh_cnt \in RefreshValues
    /\ random_number \in Words
    /\ pc = "idle"
    /\ k = 0
    /\ word = 0
    /\ buffer = <<>>
    /\ i = 0
    /\ result = [tag |-> "none"]
    /\ lastOp = Op("none", "none", 0)
    /\ nzObs = 0
    /\ rnReads = 0
    /\ words = <<>>
    /\ src = <<>>
    /\ hwNonZero = FALSE
    /\ lastObs = NotPolled

Init == RngInit /\ ProxyInit

-----------------------------------------------------------------------------
(* Lifecycle: wrap, enabled, disabled, release *)

wrap(rng) ==
    /\ UNCHANGED proxyVars
    /\ pc = "idle"
    /\ rng \in caller
    /\ caller' = caller \ {rng}
    /\ handles' = [handles EXCEPT ![rng] = @ \cup {Rng_new(rng)}]
    /\ syscon' = begin_op(syscon)
    /\ lastOp' = Op("wrap", "none", rng)
    /\ UNCHANGED <<hwVars, callVars>>

\* faulty variant: enabled() forgets the call to the clock controller
enabled_without_clock(b, self) ==
    /\ UNCHANGED proxyVars
    /\ pc = "idle"
    /\ self \in handles[b]
    /\ self._state \in impl_Rng_Disabled
    /\ syscon' = begin_op(syscon)
    /\ handles' = [handles EXCEPT ![b] = (@ \ {self}) \cup {Rng_enabled_value(self)}]
    /\ lastOp' = Op("enabled", self._state, self.raw)
    /\ UNCHANGED <<caller, hwVars, callVars>>

\* faulty variant: enabled(&self, ..) leaves the Disabled handle usable
enabled_by_reference(b, self) ==
    /\ UNCHANGED proxyVars
    /\ pc = "idle"
    /\ self \in handles[b]
    /\ self._state \in impl_Rng_Disabled
    /\ syscon' = enable_clock(begin_op(syscon), self.raw)
    /\ handles' = [handles EXCEPT ![b] = @ \cup {Rng_enabled_value(self)}]
    /\ lastOp' = Op("enabled", self._state, self.raw)
    /\ UNCHANGED <<caller, hwVars, callVars>>

enabled(b, self) ==
    /\ UNCHANGED proxyVars
    /\ pc = "idle"
    /\ self \in handles[b]
    /\ self._state \in impl_Rng_Disabled
    /\ syscon' = enable_clock(begin_op(syscon), self.raw)
    /\ handles' = [handles EXCEPT ![b] = (@ \ {self}) \cup {Rng_enabled_value(self)}]
    /\ lastOp' = Op("enabled", self._state, self.raw)
    /\ UNCHANGED <<caller, hwVars, callVars>>

disabled(b, self) ==
    /\ UNCHANGED proxyVars
    /\ pc = "idle"
    /\ self \in handles[b]
    /\ self._state \in impl_Rng_Enabled
    /\ syscon' = disable_clock(begin_op(syscon), self.raw)
    /\ handles' = [handles EXCEPT ![b] = (@ \ {self}) \cup {Rng_disabled_value(self)}]
    /\ lastOp' = Op("disabled", self._state, self.raw)
    /\ UNCHANGED <<caller, hwVars, callVars>>

\* faulty variant: release() switches the clock off before giving the block back
release_disabling_clock(b, self) ==
    /\ UNCHANGED proxyVars
    /\ pc = "idle"
    /\ self \in handles[b]
    /\ self._state \in impl_Rng
    /\ handles' = [handles EXCEPT ![b] = @ \ {self}]
    /\ caller' = caller \cup {self.raw}
    /\ syscon' = disable_clock(begin_op(syscon), self.raw)
    /\ lastOp' = Op("release", self._state, self.raw)
    /\ UNCHANGED <<hwVars, callVars>>

release(b, self) ==
    /\ UNCHANGED proxyVars
    /\ pc = "idle"
    /\ self \in handles[b]
    /\ self._state \in impl_Rng
    /\ handles' = [handles EXCEPT ![b] = @ \ {self}]
    /\ caller' = caller \cup {self.raw}
    /\ syscon' = begin_op(syscon)
    /\ lastOp' = Op("release", self._state, self.raw)
    /\ UNCHANGED <<hwVars, callVars>>

Lifecycle ==
    \/ \E rng \in Blocks : wrap(rng)
    \/ \E b \in Blocks : \E self \in handles[b] : enabled(b, self)
    \/ \E b \in Blocks : \E self \in handles[b] : disabled(b, self)
    \/ \E b \in Blocks : \E self \in handles[b] : release(b, self)

-----------------------------------------------------------------------------
(* Peripheral operations *)

\* number of iterations of `for _ in 0..32`
WaitIterations == 32

\* bit-field [lo + width - 1 : lo] of a register value
bits(v, lo, width) == (v \div (2 ^ lo)) % (2 ^ width)

\* faulty variant: maj_rev and min_rev read each other's field
ModuleId_swapped_revs(reg) ==
    [tag |-> "ModuleId",
     id |-> bits(reg, 16, 16),
     maj_rev |-> bits(reg, 8, 4),
     min_rev |-> bits(reg, 12, 4),
     aperture |-> bits(reg, 0, 8)]

\* the ModuleId record module_id() builds from the MODULEID register
ModuleId(reg) ==
    [tag |-> "ModuleId",
     id |-> bits(reg, 16, 16),
     maj_rev |-> bits(reg, 12, 4),
     min_rev |-> bits(reg, 8, 4),
     aperture |-> bits(reg, 0, 8)]

\* faulty variant: the wait is an `if`, one look at the counter ends it
refresh_wait_skipped(cnt) == TRUE

\* the condition that ends `while ...refresh_cnt() == 0 {}`
refresh_wait_done(cnt) == cnt # 0

\* u32::to_ne_bytes on the little-endian target
to_ne_bytes(w) == [j \in 1..4 |-> (w \div (256 ^ (j - 1))) % 256]

\* faulty variant: one byte is taken from every word
chunk_len_one(len, idx) == Min(1, len - idx)

\* core::cmp::min(4, buffer.len() - i)
chunk_len(len, idx) == Min(4, len - idx)

\* faulty variant: &bytes[4 - n..], the last n bytes of the word
bytes_suffix(bytes, n) == SubSeq(bytes, 5 - n, 4)

\* &bytes[..n]
bytes_prefix(bytes, n) == SubSeq(bytes, 1, n)

\* faulty variant: buffer[..n].copy_from_slice(slice), every chunk at the start
copy_to_start(buf, idx, n, slice) ==
    [j \in 1..Len(buf) |-> IF j <= n THEN slice[j] ELSE buf[j]]

\* buffer[i..i + n].copy_from_slice(slice)
copy_from_slice(buf, idx, n, slice) ==
    [j \in 1..Len(buf) |-> IF idx < j /\ j <= idx + n THEN slice[j - idx] ELSE buf[j]]

NoResult == [tag |-> "none"]
\* enum Error {}: the values of read()'s error type
Error == {}

\* faulty variant: read() reports a failure
ErrResult == [tag |-> "Err"]

\* Ok(())
OkResult == [tag |-> "Ok"]
U32Result(w) == [tag |-> "u32", val |-> w]

\* entry of get_random_u32: the for loop starts at 0
enter_get_random_u32 ==
    /\ pc' = "poll"
    /\ k' = 0
    /\ nzObs' = 0
    /\ rnReads' = 0
    /\ hwNonZero' = (refresh_cnt # 0)
    /\ lastObs' = NotPolled

module_id(b, self) ==
    /\ UNCHANGED proxyVars
    /\ pc = "idle"
    /\ self \in handles[b]
    /\ self._state \in impl_Rng
    /\ result' = ModuleId(moduleid)
    /\ syscon' = begin_op(syscon)
    /\ lastOp' = Op("module_id", self._state, self.raw)
    /\ UNCHANGED <<caller, handles, hwVars, pc, k, word, buffer, i, nzObs,
                   rnReads, words, src, hwNonZero, lastObs>>

get_random_u32(b, self) ==
    /\ UNCHANGED proxyVars
    /\ pc = "idle"
    /\ self \in handles[b]
    /\ self._state \in impl_Rng_Enabled
    /\ enter_get_random_u32
    /\ result' = NoResult
    /\ words' = <<>>
    /\ syscon' = begin_op(syscon)
    /\ lastOp' = Op("get_random_u32", self._state, self.raw)
    /\ UNCHANGED <<caller, handles, hwVars, word, buffer, i, src>>

\* read(): entry, `let mut i = 0` and the first test of `while i < buffer.len()`
read(b, self, len) ==
    /\ UNCHANGED proxyVars
    /\ pc = "idle"
    /\ self \in handles[b]
    /\ self._state \in impl_Read_for_Rng
    /\ buffer' = [j \in 1..len |-> 0]
    /\ src' = [j \in 1..len |-> {}]
    /\ i' = 0
    /\ words' = <<>>
    /\ syscon' = begin_op(syscon)
    /\ lastOp' = Op("read", self._state, self.raw)
    /\ IF 0 < len
       THEN /\ enter_get_random_u32
            /\ result' = NoResult
       ELSE /\ pc' = "returned"
            /\ result' = OkResult
            /\ UNCHANGED <<k, nzObs, rnReads, hwNonZero, lastObs>>
    /\ UNCHANGED <<caller, handles, hwVars, word>>

\* faulty variant: the loop gives up on a zero counter (a retry limit of one poll)
poll_with_retry_limit ==
    /\ UNCHANGED proxyVars
    /\ pc = "poll"
    /\ k < WaitIterations
    /\ k' = k + 1
    /\ nzObs' = IF refresh_cnt # 0 THEN nzObs + 1 ELSE nzObs
    /\ lastObs' = refresh_cnt
    /\ UNCHANGED <<lifecycleVars, hwVars, pc, word, buffer, i, result, lastOp,
                   rnReads, words, src, hwNonZero>>

\* faulty variant: a zero counter starts the 32 wait iterations over
poll_restarting_on_zero ==
    /\ UNCHANGED proxyVars
    /\ pc = "poll"
    /\ k < WaitIterations
    /\ IF refresh_wait_done(refresh_cnt)
       THEN /\ k' = k + 1
            /\ nzObs' = IF refresh_cnt # 0 THEN nzObs + 1 ELSE nzObs
       ELSE /\ k' = 0
            /\ nzObs' = 0
    /\ lastObs' = refresh_cnt
    /\ UNCHANGED <<lifecycleVars, hwVars, pc, word, buffer, i, result, lastOp,
                   rnReads, words, src, hwNonZero>>

\* one evaluation of the while condition inside the for loop
poll ==
    /\ UNCHANGED proxyVars
    /\ pc = "poll"
    /\ k < WaitIterations
    /\ IF refresh_wait_done(refresh_cnt)
       THEN /\ k' = k + 1
            /\ nzObs' = IF refresh_cnt # 0 THEN nzObs + 1 ELSE nzObs
       ELSE UNCHANGED <<k, nzObs>>
    /\ lastObs' = refresh_cnt
    /\ UNCHANGED <<lifecycleVars, hwVars, pc, word, buffer, i, result, lastOp,
                   rnReads, words, src, hwNonZero>>

\* self.raw.random_number.read().bits() and the return of get_random_u32
read_random_number ==
    /\ UNCHANGED proxyVars
    /\ pc = "poll"
    /\ k = WaitIterations
    /\ word' = random_number
    /\ rnReads' = rnReads + 1
    /\ words' = Append(words, random_number)
    /\ IF lastOp.op = "get_random_u32"
       THEN /\ pc' = "returned"
            /\ result' = U32Result(random_number)
       ELSE /\ pc' = "copy"
            /\ UNCHANGED result
    /\ UNCHANGED <<lifecycleVars, hwVars, k, buffer, i, lastOp, nzObs, src,
                   hwNonZero, lastObs>>

\* the body of read()'s loop after get_random_u32 returned, and the next test
copy ==
    /\ UNCHANGED proxyVars
    /\ pc = "copy"
    /\ LET bytes == to_ne_bytes(word)
           n == chunk_len(Len(buffer), i)
       IN /\ buffer' = copy_from_slice(buffer, i, n, bytes_prefix(bytes, n))
          /\ src' = [j \in 1..Len(src) |->
                        IF i < j /\ j <= i + n
                        THEN src[j] \cup {Len(words) - 1} ELSE src[j]]
          /\ i' = i + n
          /\ IF i + n < Len(buffer)
             THEN /\ enter_get_random_u32
                  /\ UNCHANGED result
             ELSE /\ pc' = "returned"
                  /\ result' = OkResult
                  /\ UNCHANGED <<k, nzObs, rnReads, hwNonZero, lastObs>>
    /\ UNCHANGED <<lifecycleVars, hwVars, word, lastOp, words>>

\* the caller takes the result; the borrow of the handle ends
return ==
    /\ UNCHANGED proxyVars
    /\ pc = "returned"
    /\ pc' = "idle"
    /\ k' = 0
    /\ word' = 0
    /\ buffer' = <<>>
    /\ i' = 0
    /\ nzObs' = 0
    /\ rnReads' = 0
    /\ words' = <<>>
    /\ src' = <<>>
    /\ hwNonZero' = FALSE
    /\ lastObs' = NotPolled
    /\ UNCHANGED <<lifecycleVars, hwVars, result, lastOp>>

Peripheral ==
    \/ \E b \in Blocks : \E self \in handles[b] : module_id(b, self)
    \/ \E b \in Blocks : \E self \in handles[b] : get_random_u32(b, self)
    \/ \E b \in Blocks : \E self \in handles[b] : \E len \in 0..MaxLen : read(b, self, len)
    \/ poll
    \/ read_random_number
    \/ copy
    \/ return

-----------------------------------------------------------------------------
(* Hardware: the registers change on their own *)

hw_refresh ==
    /\ UNCHANGED proxyVars
    /\ refresh_cnt' \in RefreshValues \ {refresh_cnt}
    /\ hwNonZero' = ((pc # "idle") /\ (hwNonZero \/ refresh_cnt' # 0))
    /\ UNCHANGED <<lifecycleVars, moduleid, random_number, pc, k, word, buffer,
                   i, result, lastOp, nzObs, rnReads, words, src, lastObs>>

hw_random ==
    /\ UNCHANGED proxyVars
    /\ random_number' \in Words \ {random_number}
    /\ UNCHANGED <<lifecycleVars, moduleid, refresh_cnt, callVars, lastOp>>

Hardware == hw_refresh \/ hw_random

Next == Lifecycle \/ Peripheral \/ Hardware

Spec == Init /\ [][Next]_vars

\* the processor keeps executing the call it is in: a wait iteration, the
\* register read or the copy that stays possible is eventually executed
FairSpec == Spec /\ WF_vars(poll \/ read_random_number \/ copy)

-----------------------------------------------------------------------------
(* Register proxies *)

\* faulty variant: new() resolves and reads the register when the proxy is made
RegProxy_new_eager(c, T) ==
    /\ Len(proxies) < MaxProxies
    /\ proxies' = Append(proxies, RegProxy_value(T, c))
    /\ getCalls' = count_get(getCalls)
    /\ lastDeref' = [p |-> Len(proxies) + 1, owner |-> c, kind |-> "reg",
                     T |-> T, target |-> Reg_get(T)]
    /\ UNCHANGED <<rngVars, mem, ctx>>

\* faulty variant: new() refuses a second proxy for a register that has one
RegProxy_new_unique(c, T) ==
    /\ Len(proxies) < MaxProxies
    /\ \A q \in 1..Len(proxies) : proxies[q].T # T
    /\ proxies' = Append(proxies, RegProxy_value(T, c))
    /\ UNCHANGED <<rngVars, mem, ctx, lastDeref, getCalls>>

\* RegProxy::<T>::new() called in context c
RegProxy_new(c, T) ==
    /\ Len(proxies) < MaxProxies
    /\ proxies' = Append(proxies, RegProxy_value(T, c))
    /\ UNCHANGED <<rngVars, mem, ctx, lastDeref, getCalls>>

\* RegClusterProxy::<T>::new() called in context c
RegClusterProxy_new(c, T) ==
    /\ Len(proxies) < MaxProxies
    /\ proxies' = Append(proxies, RegClusterProxy_value(T, c))
    /\ UNCHANGED <<rngVars, mem, ctx, lastDeref, getCalls>>

\* unsafe impl Send: proxy p, not borrowed, is moved to context c
send(p, c) ==
    /\ proxies[p].owner # c
    /\ \A d \in Contexts : ctx[d].pc = "idle" \/ ctx[d].p # p
    /\ proxies' = [proxies EXCEPT ![p].owner = c]
    /\ UNCHANGED <<rngVars, mem, ctx, lastDeref, getCalls>>

\* what *proxy yields, and the address of its element idx
deref(self) ==
    IF self.kind = "reg" THEN RegProxy_deref(self) ELSE RegClusterProxy_deref(self)

element(self, target, idx) ==
    IF self.kind = "reg" THEN target ELSE target.base + idx

indices(self, target) ==
    IF self.kind = "reg" THEN {0} ELSE 0..(target.len - 1)

\* proxy.modify(..), first half: dereference, then read the register
modify_load(c, p, idx) ==
    /\ ctx[c].pc = "idle"
    /\ proxies[p].owner = c
    /\ LET self == proxies[p]
           target == deref(self)
       IN /\ idx \in indices(self, target)
          /\ element(self, target, idx) \in Addrs
          /\ lastDeref' = [p |-> p, owner |-> c, kind |-> self.kind,
                           T |-> self.T, target |-> target]
          /\ ctx' = [ctx EXCEPT ![c] =
                        [pc |-> "modify", p |-> p, idx |-> idx,
                         ref |-> element(self, target, idx),
                         tmp |-> mem[element(self, target, idx)]]]
    /\ getCalls' = count_get(getCalls)
    /\ UNCHANGED <<rngVars, proxies, mem>>

\* proxy.modify(..), second half: write the register through the same reference
modify_store(c) ==
    /\ ctx[c].pc = "modify"
    /\ mem' = [mem EXCEPT ![ctx[c].ref] = (ctx[c].tmp + 1) % Cardinality(RegValues)]
    /\ ctx' = [ctx EXCEPT ![c] = Idle]
    /\ UNCHANGED <<rngVars, proxies, lastDeref, getCalls>>

ProxyNext ==
    \/ \E c \in Contexts : \E T \in RegDescs : RegProxy_new(c, T)
    \/ \E c \in Contexts : \E T \in ClusterDescs : RegClusterProxy_new(c, T)
    \/ \E p \in 1..Len(proxies) : \E c \in Contexts : send(p, c)
    \/ \E c \in Contexts : \E p \in 1..Len(proxies) : \E idx \in 0..1 : modify_load(c, p, idx)
    \/ \E c \in Contexts : modify_store(c)

\* the proxies alone: the RNG driver stays in one initial state
ProxySpecInit ==
    /\ Init
    /\ moduleid = 305419896
    /\ refresh_cnt = 0
    /\ random_number = 287454020

ProxySpec == ProxySpecInit /\ [][ProxyNext]_vars

-----------------------------------------------------------------------------
(* Properties of the RNG driver *)

AllHandles == UNION {handles[b] : b \in Blocks}
EnabledHandles == {h \in AllHandles : h._state = "Enabled"}
EnabledOnlyOps == {"module_id", "get_random_u32", "read", "disabled"}
InGetRandomU32 ==
    \/ pc \in {"poll", "copy"}
    \/ pc = "returned" /\ Len(words) > 0

\* C1: module_id, get_random_u32, read and disabled are only ever executed on
\* a handle whose state is Enabled, enabled only on a handle whose state is
\* Disabled, and an operation in progress runs on a live Enabled handle.
C1_EnabledOnlyOps ==
    /\ lastOp.op \in EnabledOnlyOps => lastOp.on = "Enabled"
    /\ lastOp.op = "enabled" => lastOp.on = "Disabled"
    /\ pc # "idle" => [raw |-> lastOp.raw, _state |-> "Enabled"] \in AllHandles

C1_Witness ==
    /\ pc = "poll"
    /\ lastOp.op = "read"
    /\ \E h \in AllHandles : h._state = "Disabled"

\* C2: release can be taken on every live handle, whatever its state
\* (Disabled as well as Enabled).
C2_ReleaseInAnyState ==
    pc = "idle" =>
        \A b \in Blocks : \A self \in handles[b] : ENABLED release(b, self)

\* C3: a handle becomes Enabled only by enabled(), which calls enable_clock on
\* its raw block exactly once; disabled() calls disable_clock exactly once;
\* and the clock of every Enabled handle's block is running.
C3_EnabledImpliesClock ==
    /\ [](\A h \in AllHandles : h._state = "Enabled" => syscon.clock[h.raw])
    /\ [](lastOp.op = "enabled" => syscon.log = <<(<<"enable_clock", lastOp.raw>>)>>)
    /\ [](lastOp.op = "disabled" => syscon.log = <<(<<"disable_clock", lastOp.raw>>)>>)
    /\ [][~(EnabledHandles' \subseteq EnabledHandles) =>
            /\ lastOp'.op = "enabled"
            /\ lastOp'.on = "Disabled"
            /\ EnabledHandles' \ EnabledHandles
                 = {[raw |-> lastOp'.raw, _state |-> "Enabled"]}]_vars

C3_Witness ==
    /\ pc = "poll"
    /\ \E h \in AllHandles : h._state = "Enabled" /\ syscon.clock[h.raw]
    /\ \E h \in AllHandles : h._state = "Disabled" /\ ~syscon.clock[h.raw]

\* C4: the state tag of every handle agrees with the clock of its block:
\* Disabled handles have the clock off, Enabled handles have it on.
C4_TagAgreesWithClock ==
    \A h \in AllHandles : (h._state = "Enabled") <=> syscon.clock[h.raw]

\* C5: every handle that descends from wrap(b), through any alternation of
\* enabled and disabled, holds the raw block b itself.
C5_RoundTripSameBlock ==
    \A b \in Blocks : \A h \in handles[b] : h.raw = b

C5_Witness ==
    \E b \in Blocks :
        /\ lastOp = Op("disabled", "Enabled", b)
        /\ handles[b] = {[raw |-> b, _state |-> "Disabled"]}

\* C6: a buffer fill of length n that returned made exactly ceil(n/4)
\* single-word reads: none for n = 0, and for n = 6 two, the first filling 4
\* bytes and the second 2.
C6_WordReadsPerFill ==
    (pc = "returned" /\ lastOp.op = "read") =>
        /\ Len(words) = (Len(buffer) + 3) \div 4
        /\ Len(buffer) = 0 => (Len(words) = 0 /\ buffer = <<>>)
        /\ Len(buffer) = 6 =>
              /\ Len(words) = 2
              /\ {j \in 1..6 : 0 \in src[j]} = 1..4
              /\ {j \in 1..6 : 1 \in src[j]} = 5..6

C6_Witness ==
    /\ pc = "returned"
    /\ lastOp.op = "read"
    /\ Len(buffer) = 6
    /\ Len(words) = 2

\* byte m (0 = least significant) of a 32-bit word: little-endian order
LeByte(w, m) == (w \div (256 ^ m)) % 256

\* C7: after a buffer fill returned, index i of the buffer holds byte i mod 4
\* (native, little-endian order) of word floor(i/4), and was written once,
\* from that word only.
C7_BufferContents ==
    (pc = "returned" /\ lastOp.op = "read") =>
        \A j \in 1..Len(buffer) :
            /\ buffer[j] = LeByte(words[((j - 1) \div 4) + 1], (j - 1) % 4)
            /\ src[j] = {(j - 1) \div 4}

C7_Witness ==
    /\ pc = "returned"
    /\ lastOp.op = "read"
    /\ Len(buffer) = 6
    /\ words[1] # words[2]
    /\ buffer[6] = LeByte(words[2], 1)

\* C8: RANDOM_NUMBER is read once per get_random_u32 call, after 32 wait
\* iterations that each ended on a non-zero REFRESH_CNT observation; the call
\* does not return earlier and returns the value the register held at that read.
C8_ReadAfter32Waits ==
    /\ [](rnReads > 0 => (rnReads = 1 /\ nzObs = 32 /\ lastObs > 0))
    /\ []((pc = "copy" \/ (pc = "returned" /\ lastOp.op = "get_random_u32")) =>
            (rnReads = 1 /\ nzObs = 32))
    /\ []((pc = "returned" /\ lastOp.op = "get_random_u32") =>
            (result = U32Result(word) /\ words = <<word>>))
    /\ [][rnReads' > rnReads =>
            /\ rnReads = 0
            /\ nzObs = 32
            /\ word' = random_number
            /\ words' = Append(words, random_number)]_vars

C8_Witness ==
    /\ pc = "copy"
    /\ Len(words) = 2
    /\ rnReads = 1
    /\ word # random_number

\* C9: while REFRESH_CNT has been zero ever since a get_random_u32 call began,
\* the call (and the buffer fill that made it) has not returned, has not read
\* RANDOM_NUMBER and has not completed one wait iteration: it is still polling.
C9_BlockedWhileZero ==
    (InGetRandomU32 /\ ~hwNonZero) =>
        /\ pc = "poll"
        /\ k = 0
        /\ nzObs = 0
        /\ rnReads = 0
        /\ result = NoResult

C9_Witness ==
    /\ pc = "poll"
    /\ lastOp.op = "read"
    /\ ~hwNonZero
    /\ lastObs = 0

\* C12: a buffer fill that returns, returns Ok(()); no value of the error
\* type exists and none is ever the result of an operation.
C12_ReadNeverFails ==
    /\ Error = {}
    /\ result.tag # "Err"
    /\ (pc = "returned" /\ lastOp.op = "read") => result.tag = "Ok"
    /\ (lastOp.op = "read" /\ result.tag # "Ok") => pc \in {"poll", "copy"}

C12_Witness ==
    /\ pc = "returned"
    /\ lastOp.op = "read"
    /\ Len(buffer) = 5
    /\ result.tag = "Ok"

\* the holders of raw block b: the caller, and every live handle around b
LiveHolders(b) ==
    {<<"caller", c>> : c \in {c \in caller : c = b}}
        \cup UNION {{<<l, h>> : h \in {h \in handles[l] : h.raw = b}} : l \in Blocks}

\* C13: every raw block is held by exactly one of the caller, one Disabled
\* handle or one Enabled handle, and the handle a transition or release was
\* called on is no longer live afterwards.
C13_ExactlyOneHolder ==
    /\ \A b \in Blocks : Cardinality(LiveHolders(b)) = 1
    /\ lastOp.op \in {"enabled", "disabled", "release"} =>
          [raw |-> lastOp.raw, _state |-> lastOp.on] \notin AllHandles

C13_Witness ==
    /\ lastOp.op = "release"
    /\ lastOp.raw \in caller
    /\ \E h \in AllHandles : h._state = "Enabled"

\* C14 as claimed: during a buffer fill the buffer is entirely untouched or
\* entirely filled, never partly overwritten.
C14_AllOrNothing ==
    (lastOp.op = "read" /\ pc # "idle") =>
        \/ \A j \in 1..Len(buffer) : src[j] = {}
        \/ \A j \in 1..Len(buffer) : src[j] # {}

\* C14 amended: a buffer fill writes the buffer front to back, one word at a
\* time: at every moment the indices below i hold their final bytes, the
\* indices from i on are untouched, and i is a multiple of 4 or the length.
C14_FilledFrontToBack ==
    (lastOp.op = "read" /\ pc # "idle") =>
        /\ i <= Len(buffer)
        /\ i % 4 = 0 \/ i = Len(buffer)
        /\ \A j \in 1..Len(buffer) :
              IF j <= i
              THEN /\ src[j] = {(j - 1) \div 4}
                   /\ buffer[j] = LeByte(words[((j - 1) \div 4) + 1], (j - 1) % 4)
              ELSE /\ src[j] = {}
                   /\ buffer[j] = 0

\* the wait for the second word sees a zero counter; the first 4 bytes are in
C14_Witness ==
    /\ lastOp.op = "read"
    /\ pc = "poll"
    /\ Len(buffer) = 6
    /\ i = 4
    /\ lastObs = 0
    /\ ~hwNonZero

\* C16: module_id returns the four bit-fields of the MODULEID register (id
\* 31:16, maj_rev 15:12, min_rev 11:8, aperture 7:0) and nothing else decides
\* its result.
C16_ModuleIdFields ==
    lastOp.op = "module_id" =>
        /\ result.tag = "ModuleId"
        /\ result.id = moduleid \div 65536
        /\ result.maj_rev = (moduleid \div 4096) % 16
        /\ result.min_rev = (moduleid \div 256) % 16
        /\ result.aperture = moduleid % 256
        /\ result.id * 65536 + result.maj_rev * 4096 + result.min_rev * 256
              + result.aperture = moduleid

C16_Witness ==
    /\ lastOp.op = "module_id"
    /\ result.maj_rev = 3
    /\ result.min_rev = 1
    /\ result.id = 2747
    /\ result.aperture = 240

FrameOps == {"wrap", "release", "module_id", "get_random_u32", "read"}

\* words the operation in progress has to read in total
WordsNeeded == IF lastOp.op = "read" THEN (Len(buffer) + 3) \div 4 ELSE 1

\* non-zero polls the operation in progress still needs before it returns
PollsLeft ==
    CASE pc = "poll" -> 32 * (WordsNeeded - Len(words)) - k
      [] pc = "copy" -> 32 * (WordsNeeded - Len(words))
      [] OTHER -> 0

\* a poll that completes a wait iteration
poll_advancing == poll /\ k' = k + 1

\* C17: every poll that sees a non-zero REFRESH_CNT completes one of the 32
\* wait iterations, so a call returns within 32 polls once the counter stays
\* non-zero, and a fill of length n needs 32 * ceil(n/4) such polls and
\* ceil(n/4) word reads; a poll that sees zero makes no progress, and the
\* hardware may put the counter back to zero between any two polls, so a
\* counter that is non-zero now and then guarantees nothing.
C17_ReturnsOnceNonZero ==
    /\ [](pc = "poll" =>
            /\ k <= 32
            /\ PollsLeft >= 32 - k
            /\ PollsLeft <= 32 * WordsNeeded - k
            /\ k = 32 => (ENABLED read_random_number /\ ~ENABLED poll)
            /\ (k < 32 /\ refresh_cnt # 0) => ENABLED poll_advancing
            /\ (k < 32 /\ refresh_cnt = 0) => ~ENABLED poll_advancing
            /\ k < 32 => ENABLED hw_refresh)
    /\ []((pc = "returned" /\ lastOp.op \in {"read", "get_random_u32"}) =>
            Len(words) = WordsNeeded)
    /\ [][(pc = "poll" /\ k < 32 /\ hwVars' = hwVars /\ vars' # vars) =>
            IF refresh_cnt # 0
            THEN k' = k + 1 /\ PollsLeft' = PollsLeft - 1
            ELSE k' = k /\ pc' = "poll" /\ PollsLeft' = PollsLeft]_vars
    /\ [][(pc # "idle" /\ pc' # "idle") => PollsLeft' <= PollsLeft]_vars
    /\ <>[](refresh_cnt # 0) => (pc \in {"poll", "copy"} ~> pc = "returned")

\* the counter was seen non-zero, then zero, and is non-zero again: the call
\* is still in the same wait iteration
C17_Witness ==
    /\ pc = "poll"
    /\ lastOp.op = "read"
    /\ Len(words) = 1
    /\ k = 31
    /\ lastObs = 0
    /\ refresh_cnt # 0

\* C18: wrap, release, module_id, get_random_u32 and read make no call to the
\* clock controller and leave the clock, the state tags and the registers as
\* they are: the clock changes only in enabled and disabled, a register only
\* by the hardware, the buffer only in read.
C18_FrameOfOperations ==
    /\ [](lastOp.op \in FrameOps => syscon.log = <<>>)
    /\ [][syscon.clock' # syscon.clock =>
            /\ lastOp'.op \in {"enabled", "disabled"}
            /\ syscon'.log # <<>>]_vars
    /\ [][(lastOp' # lastOp /\ lastOp'.op \in FrameOps) =>
            /\ syscon'.clock = syscon.clock
            /\ hwVars' = hwVars
            /\ {h \in AllHandles' : h.raw # lastOp'.raw}
                 = {h \in AllHandles : h.raw # lastOp'.raw}
            /\ lastOp'.op \in {"module_id", "get_random_u32", "read"} =>
                  handles' = handles /\ caller' = caller]_vars
    /\ [][hwVars' # hwVars =>
            /\ moduleid' = moduleid
            /\ <<lifecycleVars, pc, k, word, buffer, i, result, lastOp>>'
                 = <<lifecycleVars, pc, k, word, buffer, i, result, lastOp>>]_vars
    /\ [][buffer' # buffer =>
            \/ lastOp'.op = "read" /\ pc' # "idle"
            \/ pc = "returned" /\ pc' = "idle" /\ buffer' = <<>>]_vars

C18_Witness ==
    /\ lastOp.op = "release"
    /\ lastOp.on = "Enabled"
    /\ syscon.clock[lastOp.raw]
    /\ syscon.log = <<>>

-----------------------------------------------------------------------------
(* Properties of the register proxies *)

\* the location descriptor T stands for: its address function's fixed result
Location(kind, T, idx) ==
    IF kind = "reg" THEN Reg_get(T) ELSE RegCluster_get(T).base + idx

\* C10: every dereference of every proxy for a descriptor, from whichever
\* context owns it and however often, yields that descriptor's fixed location,
\* and the access made through it reads and writes that location only.
C10_DerefReachesL ==
    /\ [](lastDeref.kind = "reg" => lastDeref.target = Reg_get(lastDeref.T))
    /\ [](lastDeref.kind = "cluster" =>
            lastDeref.target = RegCluster_get(lastDeref.T))
    /\ [](\A c \in Contexts : ctx[c].pc = "modify" =>
            ctx[c].ref = Location(proxies[ctx[c].p].kind, proxies[ctx[c].p].T,
                                  ctx[c].idx))
    /\ [][\A a \in Addrs : mem'[a] # mem[a] =>
            \E c \in Contexts :
                /\ ctx[c].pc = "modify"
                /\ ctx'[c].pc = "idle"
                /\ a = Location(proxies[ctx[c].p].kind, proxies[ctx[c].p].T,
                                ctx[c].idx)]_vars

C10_Witness ==
    /\ Len(proxies) = 2
    /\ proxies[1].kind = "reg"
    /\ proxies[2].kind = "reg"
    /\ lastDeref.p = 2
    /\ lastDeref.owner # proxies[2].maker
    /\ ctx[lastDeref.owner].pc = "modify"
    /\ ctx[lastDeref.owner].tmp # 0

\* C11: constructing a proxy or a cluster proxy calls no address function and
\* touches no register: across every construction the call count, the
\* registers and the accesses in progress are unchanged, and as long as no
\* dereference was made nothing has been read or written.
C11_ConstructionIsInert ==
    /\ [][Len(proxies') > Len(proxies) =>
            /\ getCalls' = getCalls
            /\ mem' = mem
            /\ ctx' = ctx
            /\ lastDeref' = lastDeref]_vars
    /\ [](getCalls = 0 =>
            /\ lastDeref = NoDeref
            /\ \A a \in Addrs : mem[a] = 0
            /\ \A c \in Contexts : ctx[c].pc = "idle")
    /\ [](lastDeref = NoDeref => getCalls = 0)

C11_Witness ==
    /\ Len(proxies) = 2
    /\ proxies[1].T = proxies[2].T
    /\ proxies[1].kind = "cluster"
    /\ getCalls = 0
    /\ lastDeref = NoDeref

\* C15: a second proxy for a register can always be constructed and
\* dereferenced, whatever proxies exist and whatever the other context is
\* doing with the same register; nothing orders the two contexts' accesses.
C15_SecondProxyNeverBlocked ==
    /\ Len(proxies) < MaxProxies =>
          \A c \in Contexts : \A T \in RegDescs : ENABLED RegProxy_new(c, T)
    /\ \A c \in Contexts : \A p \in 1..Len(proxies) :
          (ctx[c].pc = "idle" /\ proxies[p].owner = c) =>
              ENABLED modify_load(c, p, 0)

\* both contexts completed one read-modify-write of the same register through
\* their own proxies, and the register shows one increment only
C15_Witness ==
    /\ Len(proxies) = 2
    /\ proxies[1].kind = "reg"
    /\ proxies[2].kind = "reg"
    /\ proxies[1].T = proxies[2].T
    /\ proxies[1].owner = proxies[1].maker
    /\ proxies[2].owner = proxies[2].maker
    /\ proxies[1].owner # proxies[2].owner
    /\ getCalls = 2
    /\ \A c \in Contexts : ctx[c].pc = "idle"
    /\ mem[Reg_get(proxies[1].T)] = 1

====
